---- MODULE Spec2Model ----
(***************************************************************************)
(* Model of src/src/gmail/read_gmail.py: the entry point main(), the Gmail *)
(* read calls it makes, the normalisation parse_email() and the writer     *)
(* save_email_json().                                                      *)
(*                                                                         *)
(* Python dicts are functions whose DOMAIN is the set of keys present, so  *)
(* that a missing key is a key outside the DOMAIN.  Texts that the code    *)
(* transforms (base64 data, decoded bodies) are sequences of code points;  *)
(* texts it only copies (identifiers, header values, file names) are       *)
(* strings.                                                                *)
(***************************************************************************)
EXTENDS Integers, Sequences, FiniteSets, TLC

(***************************************************************************)
(* Bounds of the model.                                                    *)
(***************************************************************************)
MaxParts == 2
MaxHeaders == 2
MaxRuns == 3

(***************************************************************************)
(* Python dict access.                                                     *)
(***************************************************************************)
EmptyDict == [k \in {} |-> k]

Has(d, k) == k \in DOMAIN d

Get(d, k, default) == IF Has(d, k) THEN d[k] ELSE default

(***************************************************************************)
(* base64.urlsafe_b64decode(s): s must be ASCII; '-' and '_' stand for '+' *)
(* and '/'; the decoding is binascii.a2b_base64 in its non-strict mode.    *)
(***************************************************************************)
B64Value(c) ==
    CASE c \in 65..90 -> c - 65
      [] c \in 97..122 -> c - 71
      [] c \in 48..57 -> c + 4
      [] c \in {43, 45} -> 62
      [] c \in {47, 95} -> 63
      [] OTHER -> 64

DecodeError == [ok |-> FALSE, bytes |-> <<>>]

RECURSIVE A2bBase64(_, _, _, _, _, _)
A2bBase64(s, i, quad_pos, leftchar, pads, out) ==
    IF i > Len(s)
    THEN IF quad_pos # 0 THEN DecodeError ELSE [ok |-> TRUE, bytes |-> out]
    ELSE LET c == s[i]
             v == B64Value(c)
         IN  IF c = 61
             THEN IF quad_pos >= 2 /\ quad_pos + pads + 1 >= 4
                  THEN [ok |-> TRUE, bytes |-> out]
                  ELSE A2bBase64(s, i + 1, quad_pos, leftchar,
                                 IF quad_pos >= 2 THEN pads + 1 ELSE pads, out)
             ELSE IF v >= 64
             THEN A2bBase64(s, i + 1, quad_pos, leftchar, pads, out)
             ELSE CASE quad_pos = 0 ->
                         A2bBase64(s, i + 1, 1, v, 0, out)
                    [] quad_pos = 1 ->
                         A2bBase64(s, i + 1, 2, v % 16, 0,
                                   Append(out, leftchar * 4 + (v \div 16)))
                    [] quad_pos = 2 ->
                         A2bBase64(s, i + 1, 3, v % 4, 0,
                                   Append(out, leftchar * 16 + (v \div 4)))
                    [] OTHER ->
                         A2bBase64(s, i + 1, 0, 0, 0,
                                   Append(out, leftchar * 64 + v))

UrlsafeB64decode(s) ==
    IF \E i \in 1..Len(s) : s[i] > 127
    THEN DecodeError
    ELSE A2bBase64(s, 1, 0, 0, 0, <<>>)

(***************************************************************************)
(* bytes.decode("utf-8", errors="ignore"): well-formed sequences give      *)
(* their code point, ill-formed bytes are dropped.                         *)
(***************************************************************************)
IsCont(b) == b \in 128..191

SecondOk(b1, b2) ==
    CASE b1 = 224 -> b2 \in 160..191
      [] b1 = 237 -> b2 \in 128..159
      [] b1 = 240 -> b2 \in 144..191
      [] b1 = 244 -> b2 \in 128..143
      [] OTHER -> IsCont(b2)

RECURSIVE Utf8DecodeIgnore(_)
Utf8DecodeIgnore(b) ==
    IF b = <<>> THEN <<>>
    ELSE LET b1 == b[1]
             n == Len(b)
             From(k) == SubSeq(b, k, n)
         IN  CASE b1 < 128 -> <<b1>> \o Utf8DecodeIgnore(From(2))
               [] b1 \in 194..223 ->
                    IF n < 2 THEN <<>>
                    ELSE IF ~IsCont(b[2]) THEN Utf8DecodeIgnore(From(2))
                    ELSE <<(b1 - 192) * 64 + (b[2] - 128)>>
                         \o Utf8DecodeIgnore(From(3))
               [] b1 \in 224..239 ->
                    IF n < 2 THEN <<>>
                    ELSE IF ~SecondOk(b1, b[2]) THEN Utf8DecodeIgnore(From(2))
                    ELSE IF n < 3 THEN <<>>
                    ELSE IF ~IsCont(b[3]) THEN Utf8DecodeIgnore(From(3))
                    ELSE <<(b1 - 224) * 4096 + (b[2] - 128) * 64 + (b[3] - 128)>>
                         \o Utf8DecodeIgnore(From(4))
               [] b1 \in 240..244 ->
                    IF n < 2 THEN <<>>
                    ELSE IF ~SecondOk(b1, b[2]) THEN Utf8DecodeIgnore(From(2))
                    ELSE IF n < 3 THEN <<>>
                    ELSE IF ~IsCont(b[3]) THEN Utf8DecodeIgnore(From(3))
                    ELSE IF n < 4 THEN <<>>
                    ELSE IF ~IsCont(b[4]) THEN Utf8DecodeIgnore(From(4))
                    ELSE <<(b1 - 240) * 262144 + (b[2] - 128) * 4096
                           + (b[3] - 128) * 64 + (b[4] - 128)>>
                         \o Utf8DecodeIgnore(From(5))
               [] OTHER -> Utf8DecodeIgnore(From(2))

(***************************************************************************)
(* str.strip(): drops leading and trailing white space.                    *)
(***************************************************************************)
IsSpace(c) ==
    c \in (9..13) \cup (28..32) \cup {133, 160, 5760} \cup (8192..8202)
          \cup {8232, 8233, 8239, 8287, 12288}

RECURSIVE LStrip(_)
LStrip(t) == IF t # <<>> /\ IsSpace(t[1]) THEN LStrip(Tail(t)) ELSE t

RECURSIVE RStrip(_)
RStrip(t) ==
    IF t # <<>> /\ IsSpace(t[Len(t)]) THEN RStrip(SubSeq(t, 1, Len(t) - 1)) ELSE t

Strip(t) == RStrip(LStrip(t))

(***************************************************************************)
(* base64.urlsafe_b64decode(d["body"]["data"]).decode("utf-8", "ignore")   *)
(* inside its try block: a missing key or a decoding error is an           *)
(* exception, which the caller catches.                                    *)
(***************************************************************************)
DecodeBody(d) ==
    IF ~Has(d, "body") \/ ~Has(d["body"], "data")
    THEN [ok |-> FALSE, text |-> <<>>]
    ELSE LET r == UrlsafeB64decode(d["body"]["data"])
         IN  [ok |-> r.ok, text |-> Utf8DecodeIgnore(r.bytes)]

(***************************************************************************)
(* str.lower() on the header names of the model.                           *)
(***************************************************************************)
Lower(name) ==
    CASE name \in {"From", "FROM", "from"} -> "from"
      [] name \in {"Subject", "subject"} -> "subject"
      [] name \in {"Date", "date"} -> "date"
      [] name \in {"To", "to"} -> "to"
      [] OTHER -> name

Put(d, k, v) == (k :> v) @@ d

(***************************************************************************)
(* parse_email, the loop over the headers: h["name"] and h["value"] are    *)
(* subscripts, so an entry without one of them raises KeyError.            *)
(***************************************************************************)
HeadersRaise(headers) ==
    \E i \in 1..Len(headers) :
        ~Has(headers[i], "name") \/ ~Has(headers[i], "value")

RECURSIVE ApplyHeaders(_, _)
ApplyHeaders(headers, data) ==
    IF headers = <<>> THEN data
    ELSE LET h == Head(headers)
             name == Lower(h["name"])
             value == h["value"]
             next == CASE name = "from" -> Put(data, "remitente", value)
                       [] name = "subject" -> Put(data, "asunto", value)
                       [] name = "date" -> Put(data, "fecha_correo", value)
                       [] OTHER -> data
         IN  ApplyHeaders(Tail(headers), next)

(***************************************************************************)
(* parse_email, the loop over payload["parts"] that looks for the body:    *)
(* the first text/plain part that decodes, "" when there is none.          *)
(***************************************************************************)
IsTextPlain(part) == Has(part, "mimeType") /\ part["mimeType"] = "text/plain"

\* ScanParts with the skip of an undecodable part lost: the scan ends there.
RECURSIVE ScanPartsAbortOnError(_)
ScanPartsAbortOnError(parts) ==
    IF parts = <<>> THEN <<>>
    ELSE LET part == Head(parts)
         IN  IF IsTextPlain(part)
             THEN LET r == DecodeBody(part)
                  IN  IF r.ok THEN r.text ELSE <<>>
             ELSE ScanPartsAbortOnError(Tail(parts))

RECURSIVE ScanParts(_)
ScanParts(parts) ==
    IF parts = <<>> THEN <<>>
    ELSE LET part == Head(parts)
         IN  IF IsTextPlain(part)
             THEN LET r == DecodeBody(part)
                  IN  IF r.ok THEN r.text ELSE ScanParts(Tail(parts))
             ELSE ScanParts(Tail(parts))

ExtractBody(payload) ==
    IF Has(payload, "parts")
    THEN ScanParts(payload["parts"])
    ELSE LET r == DecodeBody(payload)
         IN  IF r.ok THEN r.text ELSE <<>>

(***************************************************************************)
(* parse_email, the loop that lists the attachments.                       *)
(***************************************************************************)
HasFilename(part) == Has(part, "filename") /\ part["filename"] # ""

\* CollectFilenames that takes only the parts that are not text/plain for attachments.
RECURSIVE CollectFilenamesSkipText(_)
CollectFilenamesSkipText(parts) ==
    IF parts = <<>> THEN <<>>
    ELSE LET part == Head(parts)
             rest == CollectFilenamesSkipText(Tail(parts))
         IN  IF HasFilename(part) /\ ~IsTextPlain(part)
             THEN <<part["filename"]>> \o rest
             ELSE rest

RECURSIVE CollectFilenames(_)
CollectFilenames(parts) ==
    IF parts = <<>> THEN <<>>
    ELSE LET part == Head(parts)
             rest == CollectFilenames(Tail(parts))
         IN  IF HasFilename(part) THEN <<part["filename"]>> \o rest ELSE rest

Attachments(payload) ==
    IF Has(payload, "parts") THEN CollectFilenames(payload["parts"]) ELSE <<>>

(***************************************************************************)
(* parse_email(msg) at clock reading now: whether it raises, and the       *)
(* record it returns when it does not.                                     *)
(***************************************************************************)
PayloadOf(m) == Get(m, "payload", EmptyDict)

HeadersOf(m) == Get(PayloadOf(m), "headers", <<>>)

ParseEmailRaises(m) == ~Has(m, "id") \/ HeadersRaise(HeadersOf(m))

parse_email(m, now) ==
    LET payload == PayloadOf(m)
        data0 == [id |-> m["id"], fecha_extraccion |-> now]
        data1 == ApplyHeaders(HeadersOf(m), data0)
        data2 == Put(data1, "body", Strip(ExtractBody(payload)))
        data3 == Put(data2, "snippet", Get(m, "snippet", ""))
        data4 == Put(data3, "labels", Get(m, "labelIds", <<>>))
    IN  Put(data4, "adjuntos", Attachments(payload))

(***************************************************************************)
(* Raw messages, as the Gmail client returns them.  Base64 data are        *)
(* sequences of ASCII codes.                                               *)
(***************************************************************************)
B64Hi == <<83, 71, 107, 61>>          \* "SGk="  decodes to "Hi"
B64PaddedA == <<73, 69, 69, 75>>      \* "IEEK"  decodes to " A\n"
B64BadPadding == <<83, 71, 107>>      \* "SGk"   is rejected: incorrect padding
B64BadUtf8 == <<47, 48, 103, 61>>     \* "/0g="  decodes to the bytes FF 48
B64Empty == <<>>                      \* ""      decodes to ""

DataStrings == {B64Hi, B64PaddedA, B64BadPadding, B64BadUtf8, B64Empty}

BodyDicts == {[size |-> 0]} \cup {[data |-> d] : d \in DataStrings}

MimeTypes == {"text/plain", "text/html", "Text/Plain"}

BodyParts ==
    {[mimeType |-> m, body |-> b] : m \in MimeTypes, b \in BodyDicts}
        \cup {[mimeType |-> m] : m \in MimeTypes}
        \cup {[body |-> b] : b \in BodyDicts}
        \cup {[partId |-> "0"]}

FileParts ==
    {[mimeType |-> m, filename |-> f, body |-> [attachmentId |-> "att"]] :
        m \in {"text/plain", "application/pdf"}, f \in {"", "a.txt", "b.pdf"}}
        \cup {[filename |-> f] : f \in {"", "a.txt", "b.pdf"}}
        \cup {[mimeType |-> "text/plain", filename |-> "a.txt", body |-> [data |-> B64Hi]]}

NestedParts ==
    {[mimeType |-> "multipart/alternative",
      parts |-> <<[mimeType |-> "text/plain", body |-> [data |-> B64Hi]],
                  [mimeType |-> "text/html", body |-> [data |-> B64PaddedA]]>>],
     [mimeType |-> "multipart/mixed",
      parts |-> <<[mimeType |-> "application/pdf", filename |-> "c.pdf",
                   body |-> [attachmentId |-> "att"]]>>]}

Parts == BodyParts \cup FileParts \cup NestedParts

SeqsUpTo(S, n) == UNION {[1..k -> S] : k \in 0..n}

HeaderEntries ==
    {[name |-> n, value |-> v] :
        n \in {"From", "FROM", "Subject", "Date", "To"}, v \in {"a@x.com", "Hi"}}
        \cup {[name |-> "From"], [value |-> "a@x.com"]}

RawMessages ==
    {[id |-> "m1", payload |-> [parts |-> ps]] : ps \in SeqsUpTo(Parts, MaxParts)}
        \cup {[id |-> "m1", payload |-> [headers |-> hs, body |-> [data |-> B64Hi]]] :
                hs \in SeqsUpTo(HeaderEntries, MaxHeaders)}
        \cup {[id |-> "m1", payload |-> [body |-> b]] : b \in BodyDicts}
        \cup {[id |-> "m1", payload |-> [mimeType |-> "text/plain"]],
              [id |-> "m1"],
              [id |-> "m1", snippet |-> "Hi there", labelIds |-> <<"INBOX", "UNREAD">>]}

(***************************************************************************)
(* The mailboxes main() runs against: each message identifier is unknown   *)
(* to the provider or names one of these messages.                         *)
(***************************************************************************)
MsgIds == {"m1", "m2"}

FullMessage(i) ==
    [id |-> i,
     snippet |-> "Hi there",
     labelIds |-> <<"INBOX", "UNREAD">>,
     payload |-> [headers |-> <<[name |-> "From", value |-> "a@x.com"],
                                [name |-> "Subject", value |-> "Hi"],
                                [name |-> "Date", value |-> "Mon, 1 Jan 2024"]>>,
                  parts |-> <<[mimeType |-> "text/plain", body |-> [data |-> B64Hi]],
                              [mimeType |-> "application/pdf", filename |-> "b.pdf",
                               body |-> [attachmentId |-> "att"]]>>]]

NamelessHeaderMessage(i) ==
    [id |-> i, payload |-> [headers |-> <<[value |-> "a@x.com"]>>,
                            body |-> [data |-> B64Hi]]]

BareMessage(i) == [id |-> i]

MessagesOf(i) == {FullMessage(i), NamelessHeaderMessage(i), BareMessage(i)}

Mailboxes ==
    UNION {{mb \in [S -> UNION {MessagesOf(i) : i \in S}] :
                \A i \in S : mb[i]["id"] = i} : S \in SUBSET MsgIds}

Inboxes(mb) ==
    {q \in SeqsUpTo(DOMAIN mb, Cardinality(MsgIds)) :
        \A a, b \in 1..Len(q) : a # b => q[a] # q[b]}

(***************************************************************************)
(* State of a sequence of invocations of main().                           *)
(*   pc          where main() is: "idle" before the first invocation,      *)
(*               "exit" after one has ended                                *)
(*   run         number of invocations started; the clock reading of       *)
(*               datetime.now() in invocation number run                   *)
(*   args        the parsed command line: id is <<>> (None) or <<value>>   *)
(*   tokenExists whether TOKEN_PATH exists for this invocation             *)
(*   mailbox     the provider's messages by identifier                     *)
(*   inbox       the identifiers of the INBOX messages, newest first       *)
(*   msg_id, msg, parsed   the locals of main(); msg_id is <<>> or <<id>>  *)
(*   dirExists, files      DATA_DIR: files maps a path to what it holds,   *)
(*               the record dumped into it and how much of the dump        *)
(*               reached it ("none", "part" or "all")                      *)
(*   status      "running", or how the invocation ended: "ok" or "error"   *)
(*   outcome     the notice printed or the exception raised at the end     *)
(*   calls       the functions this invocation has called, in order        *)
(*   atStart     DATA_DIR as it was when this invocation started           *)
(*   persisted   by identifier, the record of the latest invocation whose  *)
(*               save_email_json returned                                  *)
(***************************************************************************)
VARIABLES pc, run, args, tokenExists, mailbox, inbox, msg_id, msg, parsed,
          dirExists, files, status, outcome, calls, atStart, persisted

vars == <<pc, run, args, tokenExists, mailbox, inbox, msg_id, msg, parsed,
          dirExists, files, status, outcome, calls, atStart, persisted>>

NoId == <<>>

Truthy(opt) == opt # NoId /\ opt[1] # ""

ArgIds == {NoId, <<"">>} \cup {<<i>> : i \in MsgIds}

FileName(data) ==
    <<"mail_", IF Has(data, "id") THEN data["id"] ELSE "sin_id_timestamp", ".json">>

Locals0 ==
    /\ msg_id = NoId
    /\ msg = EmptyDict
    /\ parsed = EmptyDict
    /\ status = "running"
    /\ outcome = ""
    /\ calls = <<>>

Init ==
    /\ pc = "idle"
    /\ run = 0
    /\ args = [id |-> NoId, last |-> FALSE]
    /\ tokenExists \in BOOLEAN
    /\ mailbox \in Mailboxes
    /\ inbox \in Inboxes(mailbox)
    /\ Locals0
    /\ dirExists = FALSE
    /\ files = EmptyDict
    /\ atStart = [dirExists |-> FALSE, files |-> EmptyDict]
    /\ persisted = EmptyDict

Raise(exc) ==
    /\ pc' = "exit"
    /\ status' = "error"
    /\ outcome' = exc

Return(notice) ==
    /\ pc' = "exit"
    /\ status' = "ok"
    /\ outcome' = notice

(***************************************************************************)
(* A new invocation: argparse reads --last and --id.                       *)
(***************************************************************************)
ParseArgs ==
    /\ pc \in {"idle", "exit"}
    /\ run < MaxRuns
    /\ run' = run + 1
    /\ \E i \in ArgIds, l \in BOOLEAN : args' = [id |-> i, last |-> l]
    /\ tokenExists' \in BOOLEAN
    /\ msg_id' = NoId
    /\ msg' = EmptyDict
    /\ parsed' = EmptyDict
    /\ status' = "running"
    /\ outcome' = ""
    /\ calls' = <<>>
    /\ atStart' = [dirExists |-> dirExists, files |-> files]
    /\ pc' = "start"
    /\ UNCHANGED <<mailbox, inbox, dirExists, files, persisted>>

(***************************************************************************)
(* service = get_gmail_service(): load_credentials() raises when the       *)
(* token file is missing.                                                  *)
(***************************************************************************)
GetGmailService ==
    /\ pc = "start"
    /\ calls' = Append(calls, "load_credentials")
    /\ IF tokenExists
       THEN pc' = "connected" /\ UNCHANGED <<status, outcome>>
       ELSE Raise("FileNotFoundError")
    /\ UNCHANGED <<run, args, tokenExists, mailbox, inbox, msg_id, msg, parsed,
                   dirExists, files, atStart, persisted>>

(***************************************************************************)
(* The selection of the mode: if args.id / elif args.last / else.          *)
(***************************************************************************)
SelectMode ==
    /\ pc = "connected"
    /\ IF Truthy(args.id)
       THEN /\ msg_id' = args.id
            /\ pc' = "resolved"
            /\ UNCHANGED <<status, outcome>>
       ELSE IF args.last
       THEN /\ pc' = "listing"
            /\ UNCHANGED <<msg_id, status, outcome>>
       ELSE /\ Return("usage")
            /\ UNCHANGED msg_id
    /\ UNCHANGED <<run, args, tokenExists, mailbox, inbox, msg, parsed,
                   dirExists, files, calls, atStart, persisted>>

\* FetchLastEmail without the test for an empty list: messages[0] raises.
FetchLastEmailUnguarded ==
    /\ pc = "listing"
    /\ calls' = Append(calls, "fetch_last_email")
    /\ \/ /\ Raise("HttpError:list")
          /\ UNCHANGED msg_id
       \/ IF inbox = <<>>
          THEN Raise("IndexError") /\ UNCHANGED msg_id
          ELSE /\ msg_id' = <<inbox[1]>>
               /\ pc' = "resolved"
               /\ UNCHANGED <<status, outcome>>
    /\ UNCHANGED <<run, args, tokenExists, mailbox, inbox, msg, parsed,
                   dirExists, files, atStart, persisted>>

(***************************************************************************)
(* msg_id = fetch_last_email(service), and the return of main() when it    *)
(* is None.  The list call may fail at the provider.                       *)
(***************************************************************************)
FetchLastEmail ==
    /\ pc = "listing"
    /\ calls' = Append(calls, "fetch_last_email")
    /\ \/ /\ Raise("HttpError:list")
          /\ UNCHANGED msg_id
       \/ LET messages == SubSeq(inbox, 1, IF Len(inbox) < 1 THEN Len(inbox) ELSE 1)
          IN  IF messages = <<>>
              THEN Return("empty_inbox") /\ UNCHANGED msg_id
              ELSE /\ msg_id' = <<messages[1]>>
                   /\ pc' = "resolved"
                   /\ UNCHANGED <<status, outcome>>
    /\ UNCHANGED <<run, args, tokenExists, mailbox, inbox, msg, parsed,
                   dirExists, files, atStart, persisted>>

(***************************************************************************)
(* msg = fetch_email_by_id(service, msg_id): the provider returns the      *)
(* message, reports that it knows no such identifier, or fails.            *)
(***************************************************************************)
FetchEmailById ==
    /\ pc = "resolved"
    /\ calls' = Append(calls, "fetch_email_by_id")
    /\ \/ /\ msg_id[1] \in DOMAIN mailbox
          /\ msg' = mailbox[msg_id[1]]
          /\ pc' = "fetched"
          /\ UNCHANGED <<status, outcome>>
       \/ /\ msg_id[1] \notin DOMAIN mailbox
          /\ Raise("HttpError:notFound")
          /\ UNCHANGED msg
       \/ /\ Raise("HttpError:get")
          /\ UNCHANGED msg
    /\ UNCHANGED <<run, args, tokenExists, mailbox, inbox, msg_id, parsed,
                   dirExists, files, atStart, persisted>>

\* main() that hands the raw message to save_email_json without parsing it.
ParseEmailSkipped ==
    /\ pc = "fetched"
    /\ parsed' = msg
    /\ pc' = "parsed"
    /\ UNCHANGED <<run, args, tokenExists, mailbox, inbox, msg_id, msg,
                   dirExists, files, status, outcome, calls, atStart, persisted>>

(***************************************************************************)
(* parsed = parse_email(msg)                                               *)
(***************************************************************************)
ParseEmail ==
    /\ pc = "fetched"
    /\ calls' = Append(calls, "parse_email")
    /\ IF ParseEmailRaises(msg)
       THEN Raise("KeyError") /\ UNCHANGED parsed
       ELSE /\ parsed' = parse_email(msg, run)
            /\ pc' = "parsed"
            /\ UNCHANGED <<status, outcome>>
    /\ UNCHANGED <<run, args, tokenExists, mailbox, inbox, msg_id, msg,
                   dirExists, files, atStart, persisted>>

(***************************************************************************)
(* save_email_json(parsed), its start: os.makedirs, then open(path, "w"),  *)
(* which creates the file or empties the one that is there.                *)
(***************************************************************************)
SaveOpen ==
    /\ pc = "parsed"
    /\ calls' = Append(calls, "save_email_json")
    /\ dirExists' = TRUE
    /\ files' = Put(files, FileName(parsed), [data |-> parsed, written |-> "none"])
    /\ pc' = "writing"
    /\ UNCHANGED <<run, args, tokenExists, mailbox, inbox, msg_id, msg, parsed,
                   status, outcome, atStart, persisted>>

(***************************************************************************)
(* save_email_json, json.dump running to its end, the file closed, and     *)
(* main() printing its last line.                                          *)
(***************************************************************************)
SaveDump ==
    /\ pc = "writing"
    /\ files' = Put(files, FileName(parsed), [data |-> parsed, written |-> "all"])
    /\ persisted' = Put(persisted, parsed["id"], parsed)
    /\ Return("saved")
    /\ UNCHANGED <<run, args, tokenExists, mailbox, inbox, msg_id, msg, parsed,
                   dirExists, calls, atStart>>

(***************************************************************************)
(* save_email_json, json.dump stopped before its end (a write error, a     *)
(* string the encoding rejects, the process killed): the file keeps what   *)
(* had reached it, nothing or a part of the record.                        *)
(***************************************************************************)
SaveFail ==
    /\ pc = "writing"
    /\ \E w \in {"none", "part"} :
          files' = Put(files, FileName(parsed), [data |-> parsed, written |-> w])
    /\ Raise("OSError")
    /\ UNCHANGED <<run, args, tokenExists, mailbox, inbox, msg_id, msg, parsed,
                   dirExists, calls, atStart, persisted>>

Next ==
    \/ ParseArgs
    \/ GetGmailService
    \/ SelectMode
    \/ FetchLastEmail
    \/ FetchEmailById
    \/ ParseEmail
    \/ SaveOpen
    \/ SaveDump
    \/ SaveFail

Spec == Init /\ [][Next]_vars

(***************************************************************************)
(* parse_email() on its own: main() has fetched an arbitrary raw message   *)
(* and applies parse_email to it.                                          *)
(***************************************************************************)
InitParse ==
    /\ pc = "fetched"
    /\ run = 1
    /\ args = [id |-> <<"m1">>, last |-> FALSE]
    /\ tokenExists = TRUE
    /\ msg \in RawMessages
    /\ mailbox = [i \in {"m1"} |-> msg]
    /\ inbox = <<>>
    /\ msg_id = <<"m1">>
    /\ parsed = EmptyDict
    /\ status = "running"
    /\ outcome = ""
    /\ calls = <<"load_credentials", "fetch_email_by_id">>
    /\ dirExists = FALSE
    /\ files = EmptyDict
    /\ atStart = [dirExists |-> FALSE, files |-> EmptyDict]
    /\ persisted = EmptyDict

NextParse == ParseEmail

SpecParse == InitParse /\ [][NextParse]_vars

(***************************************************************************)
(* Properties.                                                             *)
(***************************************************************************)
Pipeline == <<"fetch_email_by_id", "parse_email", "save_email_json">>

IsPipelineStep(c) == c \in {Pipeline[i] : i \in 1..Len(Pipeline)}

Steps == SelectSeq(calls, IsPipelineStep)

Count(c) == Cardinality({i \in 1..Len(calls) : calls[i] = c})

IsPrefix(s, t) == Len(s) <= Len(t) /\ s = SubSeq(t, 1, Len(s))

Resolved == msg_id # NoId

FetchSucceeded == Has(msg, "id")

OutputChanged == files # atStart.files \/ dirExists # atStart.dirExists

ListRules ==
    /\ Count("fetch_last_email") <= 1
    /\ Count("fetch_last_email") = 1 => args.last

TokenMissingRun == pc = "exit" /\ calls = <<"load_credentials">> /\ ~tokenExists

EmptyInboxRun ==
    /\ pc = "exit"
    /\ calls = <<"load_credentials", "fetch_last_email">>
    /\ inbox = <<>>
    /\ outcome # "HttpError:list"

FetchFailedRun ==
    pc = "exit" /\ Count("fetch_email_by_id") = 1 /\ ~FetchSucceeded

\* C2: a run of main that ends because the token file is missing, because
\* the inbox is empty in --last mode, or because fetch_email_by_id failed
\* (unknown identifier or provider failure) leaves the output directory as it
\* was when the run started; and the empty-inbox run ends as a success.
C2_FailuresWriteNothing ==
    /\ (TokenMissingRun \/ EmptyInboxRun \/ FetchFailedRun) => ~OutputChanged
    /\ EmptyInboxRun => status = "ok"
    /\ (TokenMissingRun \/ FetchFailedRun) => status = "error"

C2_Witness ==
    /\ FetchFailedRun
    /\ outcome = "HttpError:notFound"
    /\ \E f \in DOMAIN files : files[f].written = "all"

\* C3: whenever --id=<value> is supplied, whatever the value and whether or
\* not --last is supplied too, the identifier passed to fetch_email_by_id is
\* the literal value and fetch_last_email is never called in that run.
C3_IdSkipsLookup ==
    args.id # NoId =>
        /\ Count("fetch_last_email") = 0
        /\ Count("fetch_email_by_id") = 1 => msg_id = args.id

\* C4: run with neither --last nor --id, main ends at once with the usage
\* notice and without error, whether or not the token file exists: no
\* credential load, list call, retrieval call or file write is attempted.
C4_UsageImmediately ==
    (pc # "idle" /\ args.id = NoId /\ ~args.last) =>
        /\ calls = <<>>
        /\ ~OutputChanged
        /\ pc = "exit" => (status = "ok" /\ outcome = "usage")

PartsOf(m) == PayloadOf(m)["parts"]

Decodable(part) ==
    /\ "mimeType" \in DOMAIN part
    /\ part["mimeType"] = "text/plain"
    /\ DecodeBody(part).ok

\* C5: for a raw message whose payload has a parts list, body is the trimmed
\* decoded content of the first part, in declared order, whose mimeType is
\* exactly "text/plain" and whose data decodes; text/plain parts that do not
\* decode or have no body data are skipped, parts of another MIME type are
\* never decoded, and body is "" when no text/plain part decodes.
C5_FirstPlainTextPart ==
    (pc = "parsed" /\ Has(PayloadOf(msg), "parts")) =>
        LET ps == PartsOf(msg)
            good == {i \in 1..Len(ps) : Decodable(ps[i])}
            first == CHOOSE i \in good : \A j \in good : i <= j
        IN  parsed["body"] =
                IF good = {} THEN <<>> ELSE Strip(DecodeBody(ps[first]).text)

C5_Witness ==
    /\ pc = "parsed"
    /\ Has(PayloadOf(msg), "parts")
    /\ Len(PartsOf(msg)) = 2
    /\ IsTextPlain(PartsOf(msg)[1])
    /\ ~DecodeBody(PartsOf(msg)[1]).ok
    /\ Decodable(PartsOf(msg)[2])
    /\ DecodeBody(PartsOf(msg)[2]).text = <<32, 65, 10>>
    /\ parsed["body"] = <<65>>

RECURSIVE DepthFirst(_)
DepthFirst(parts) ==
    IF parts = <<>> THEN [found |-> FALSE, text |-> <<>>]
    ELSE LET part == Head(parts)
             inner == IF Has(part, "parts")
                      THEN DepthFirst(part["parts"])
                      ELSE [found |-> FALSE, text |-> <<>>]
         IN  IF Decodable(part) THEN [found |-> TRUE, text |-> DecodeBody(part).text]
             ELSE IF inner.found THEN inner
             ELSE DepthFirst(Tail(parts))

\* C6: when payload parts are nested (a part that has a parts list of its
\* own), the body is found depth-first over the payload parts: the first
\* text/plain part met in depth-first order wins, also inside a nested part.
C6_DepthFirstBody ==
    (pc = "parsed" /\ Has(PayloadOf(msg), "parts")) =>
        parsed["body"] = Strip(DepthFirst(PartsOf(msg)).text)

HeaderNamed(m, lowered) ==
    \E i \in 1..Len(HeadersOf(m)) :
        /\ Has(HeadersOf(m)[i], "name")
        /\ Lower(HeadersOf(m)[i]["name"]) = lowered

\* C7: parse_email is total over raw messages that carry an identifier: it
\* never raises when an optional field is missing (a header entry without a
\* name or a value included) nor when body data cannot be decoded; a missing
\* header leaves its record field absent, and without a parts list a missing
\* or undecodable top-level body gives body = "".
C7_ParseEmailTotal ==
    /\ (Has(msg, "id") /\ Count("parse_email") = 1) => pc = "parsed"
    /\ pc = "parsed" =>
        /\ Has(parsed, "remitente") <=> HeaderNamed(msg, "from")
        /\ Has(parsed, "asunto") <=> HeaderNamed(msg, "subject")
        /\ Has(parsed, "fecha_correo") <=> HeaderNamed(msg, "date")
        /\ (~Has(PayloadOf(msg), "parts") /\ ~DecodeBody(PayloadOf(msg)).ok)
                => parsed["body"] = <<>>

DeclaresFilename(part) == "filename" \in DOMAIN part /\ part["filename"] # ""

C9_OneFilePerPersistedId ==
    pc = "exit" =>
        /\ DOMAIN files = {FileName(persisted[i]) : i \in DOMAIN persisted}
        /\ \A i \in DOMAIN persisted :
              /\ files[FileName(persisted[i])] = [data |-> persisted[i], written |-> "all"]
              /\ persisted[i] = parse_email(mailbox[i], persisted[i]["fecha_extraccion"])

BeingWritten(f) == pc = "writing" /\ f = FileName(parsed)

\* C10: in every reachable state, the states where save_email_json stopped
\* between opening the file and finishing the dump included, no file of the
\* output directory holds a truncated or incomplete record.  (The file that
\* a running save_email_json is still writing is not counted.)
C10_NoPartialWrite ==
    \A f \in DOMAIN files : files[f].written = "all" \/ BeingWritten(f)

====
